---- MODULE Spec2Model ----
(***************************************************************************)
(* freezer: a segmented, append-only message log on a hierarchical byte    *)
(* store.  MessageSource.ConsumeMessages (src/freezer_source.go:47-109)    *)
(* is modelled statement by statement.  The sink (NewMessageSink,          *)
(* PutMessage, Close) and seqToPath are used by the source and its tests   *)
(* but are not part of the available source; they are modelled from the    *)
(* written specification (sections 3, 4.1-4.3, 6).  The byte store is the  *)
(* external collaborator: a map from segment path to the bytes written so  *)
(* far, visible to readers from the moment the segment is created.         *)
(***************************************************************************)
EXTENDS Integers, Sequences, FiniteSets, TLC

(* ---------------------------- bounds ---------------------------------- *)
\* number of PutMessage calls one sink performs
MaxPuts == 2
\* longest segment content enumerated for a store that was not written by the sink
MaxFileLen == 6
\* number of PutMessage calls of the sink in the cancellation-while-waiting scenario
MaxPutsWait == 1

(* ------------------------ program constants --------------------------- *)
\* byte groups of a segment path ("/foo/00/00/00/00/00/00/" + file name)
PathDepth == 7
\* bytes of the length prefix: lenBytes := []byte{0, 0, 0, 0}
LenSize == 4
\* one byte holds values 0..255
ByteRange == 256

(* ----------------------------- values --------------------------------- *)
\* payloads handed to PutMessage: the empty byte string, one byte, two bytes
\* (one of them a zero byte), as in the tests' []byte{1}, []byte{2}
Payloads == { <<>>, <<1>>, <<2, 0>> }
\* MessageSinkConfig.MaxUnflushedMessages (0 = no count limit)
MaxMsgsChoices == {0, 1, 2}
\* MessageSinkConfig.MaxUnflushedTime (0 = no time limit, 1 = some D > 0)
MaxTimeChoices == {0, 1}
\* errors a ConsumerMessageHandler may return
HandlerErrs == {"herr1", "herr2"}
\* values of ctx.Err() once the context is done
CtxErrs == {"Canceled", "DeadlineExceeded", "OtherCause"}
\* bytes enumerated in a store that was not written by the sink
RawBytes == {0, 1}

VARIABLES
    segs,        \* the store: segment path -> bytes written so far
    sinkPc,      \* sink: none | idle | putPayload | rotMarker | rotOpen | closed
    sinkCfg,     \* MessageSinkConfig: [maxMsgs, maxTime]
    sseq,        \* sink: current sequence number
    count,       \* sink: messages written since the last rotation
    expired,     \* sink: the maximum unflushed duration has elapsed since the last rotation
    cur,         \* sink: payload of the PutMessage call in progress
    appended,    \* history: payloads whose frame is completely written
    sinkHist,    \* history: sink-side events "put" / "elapse" in order
    pc,          \* source: position inside ConsumeMessages
    seq,         \* source: loop variable seq
    off,         \* source: read offset of rc in the open segment
    len,         \* source: decoded length of the current frame
    buf,         \* source: payload buffer handed to the handler
    rcCloses,    \* source: seq whose open succeeded -> number of Close calls on its handle
    delivered,   \* history: payloads passed to the handler, in order
    result,      \* return value of ConsumeMessages ("running" before it returns)
    ctxErr,      \* ctx.Err(): "nil" while the context is live
    lastOpen,    \* history: outcome of the most recent OpenReadCloser
    ioFailed,    \* history: a call on the store failed for a reason of the store's own
    hret,        \* history: what the most recent handler call returned
    prevCall     \* history: <<delivered, result>> of the call before this one, <<>> if none

sinkVars == <<sinkPc, sinkCfg, sseq, count, expired, cur, appended, sinkHist>>
srcVars  == <<pc, seq, off, len, buf, rcCloses, delivered, result, lastOpen, ioFailed, hret,
              prevCall>>
vars     == <<segs, sinkVars, srcVars, ctxErr>>

(* ------------------------- path scheme -------------------------------- *)
RECURSIVE Pow(_, _)
Pow(b, e) == IF e = 0 THEN 1 ELSE b * Pow(b, e - 1)

\* the n low bytes of s, most significant first
RECURSIVE ByteGroups(_, _)
ByteGroups(s, n) ==
    IF n = 0 THEN <<>> ELSE Append(ByteGroups(s \div ByteRange, n - 1), s % ByteRange)

\* seqToPath(root, seq): the sequence number split into PathDepth bytes,
\* most significant first (each rendered as two hex digits by the program)
seqToPath(s) == ByteGroups(s, PathDepth)

(* -------------------------- frame codec ------------------------------- *)
\* binary.LittleEndian.PutUint32
PutUint32(n) == [i \in 1..LenSize |-> (n \div Pow(ByteRange, i - 1)) % ByteRange]

\* binary.LittleEndian.Uint32(lenBytes[:])
Uint32(b) == b[1] + b[2] * ByteRange + b[3] * ByteRange * ByteRange
                  + b[4] * ByteRange * ByteRange * ByteRange

\* the frame of one payload: uint32_le(len(payload)) then the raw bytes
EncodeLen(p) == PutUint32(Len(p))

\* the end marker: uint32_le(0)
EndMarker == PutUint32(0)

(* ----------------------------- store ---------------------------------- *)
Exists(s) == seqToPath(s) \in DOMAIN segs
Content(s) == segs[seqToPath(s)]
Create(s) == (seqToPath(s) :> <<>>) @@ segs
AppendTo(s, bytes) == [segs EXCEPT ![seqToPath(s)] = @ \o bytes]

\* os.IsNotExist(err)
IsNotExist(err) == err = "NotExist"

\* io.ReadFull on a reader with avail bytes left, asked for k bytes:
\* <<bytes consumed, error>>
ReadFull(avail, k) ==
    IF avail >= k THEN <<k, "nil">>
    ELSE IF avail = 0 THEN <<0, "EOF">>
    ELSE <<avail, "ErrUnexpectedEOF">>

SubBytes(s, from, n) == [i \in 1..n |-> s[from + i]]

(* ------------------------------ sink ---------------------------------- *)
NumPuts == Len(SelectSeq(sinkHist, LAMBDA e : e = "put"))

\* the policy with the duration limit left out
ShouldRotate_CountOnly(cfg, n, exp) == cfg.maxMsgs # 0 /\ n >= cfg.maxMsgs

\* rotation policy, evaluated after the counter is incremented
ShouldRotate(cfg, n, exp) ==
    \/ cfg.maxMsgs # 0 /\ n >= cfg.maxMsgs
    \/ cfg.maxTime # 0 /\ exp

\* NewMessageSink: create the root, open (create) segment 0 for writing
NewMessageSinkIf(cond) ==
    /\ cond
    /\ sinkPc = "none"
    /\ \E m \in MaxMsgsChoices, t \in MaxTimeChoices :
            sinkCfg' = [maxMsgs |-> m, maxTime |-> t]
    /\ segs' = Create(0)
    /\ sinkPc' = "idle"
    /\ sseq' = 0
    /\ count' = 0
    /\ expired' = FALSE
    /\ UNCHANGED <<cur, appended, sinkHist, srcVars, ctxErr>>

\* ... at any moment
NewMessageSink == NewMessageSinkIf(TRUE)
\* ... once ConsumeMessages is running
NewMessageSinkLater == NewMessageSinkIf(pc # "idle")

\* PutMessage step 1, first write: the 4-byte little-endian length
PutMessageLenUpTo(n) ==
    /\ sinkPc = "idle"
    /\ NumPuts < n
    /\ \E p \in Payloads :
            /\ cur' = p
            /\ segs' = AppendTo(sseq, EncodeLen(p))
    /\ sinkPc' = "putPayload"
    /\ sinkHist' = Append(sinkHist, "put")
    /\ UNCHANGED <<sinkCfg, sseq, count, expired, appended, srcVars, ctxErr>>

\* ... at most MaxPuts times
PutMessageLen == PutMessageLenUpTo(MaxPuts)
\* ... at most MaxPutsWait times
PutMessageLenWait == PutMessageLenUpTo(MaxPutsWait)

\* PutMessage step 1, second write: the payload bytes; then step 2 (increment
\* the counter) and step 3 (evaluate the rotation policy)
PutMessagePayload ==
    /\ sinkPc = "putPayload"
    /\ segs' = AppendTo(sseq, cur)
    /\ appended' = Append(appended, cur)
    /\ count' = count + 1
    /\ cur' = <<>>
    /\ sinkPc' = IF ShouldRotate(sinkCfg, count + 1, expired) THEN "rotMarker" ELSE "idle"
    /\ UNCHANGED <<sinkCfg, sseq, expired, sinkHist, srcVars, ctxErr>>

\* PutMessage step 4, first half: end marker to the current segment, close it
RotateMarker ==
    /\ sinkPc = "rotMarker"
    /\ segs' = AppendTo(sseq, EndMarker)
    /\ sinkPc' = "rotOpen"
    /\ UNCHANGED <<sinkCfg, sseq, count, expired, cur, appended, sinkHist, srcVars, ctxErr>>

\* PutMessage step 4, second half: increment the sequence number, open the
\* new segment, reset the counter and the rotation timer
RotateOpen ==
    /\ sinkPc = "rotOpen"
    /\ sseq' = sseq + 1
    /\ segs' = Create(sseq + 1)
    /\ count' = 0
    /\ expired' = FALSE
    /\ sinkPc' = "idle"
    /\ UNCHANGED <<sinkCfg, cur, appended, sinkHist, srcVars, ctxErr>>

\* Close: end marker to the open segment, close its handle
SinkClose ==
    /\ sinkPc = "idle"
    /\ segs' = AppendTo(sseq, EndMarker)
    /\ sinkPc' = "closed"
    /\ UNCHANGED <<sinkCfg, sseq, count, expired, cur, appended, sinkHist, srcVars, ctxErr>>

\* the maximum unflushed duration elapses while the sink holds a segment open;
\* the sink has no background timer, so nothing else changes
Elapse ==
    /\ sinkPc \in {"idle", "putPayload"}
    /\ sinkCfg.maxTime # 0
    /\ ~expired
    /\ expired' = TRUE
    /\ sinkHist' = Append(sinkHist, "elapse")
    /\ UNCHANGED <<segs, sinkPc, sinkCfg, sseq, count, cur, appended, srcVars, ctxErr>>

(* ----------------------------- source --------------------------------- *)
\* error values: a nil error, a plain error returned as it is, and an error
\* built by fmt.Errorf from a message and the error it reports
Running == <<"running">>
Nil == <<"nil">>
Plain(e) == <<e>>
Errorf(msg, e) == <<msg, e>>

\* outcomes of streamstore.OpenReadCloser(fullname): the segment's handle,
\* a not-found error, or any other store error
OpenOutcomes(s) == (IF Exists(s) THEN {"nil"} ELSE {"NotExist"}) \cup {"OpenErr", "OpenDenied"}

\* every failed open taken for "not there yet"
OpenNext_RetryAll(err) == IF err = "nil" THEN "readLen" ELSE "wait"

\* where the wait loop goes after an open (lines 63-69)
OpenNext(err) ==
    IF err = "nil" THEN "readLen"
    ELSE IF ~IsNotExist(err) THEN "returned"
    ELSE "wait"

\* every cause of the context's end taken for a graceful stop
CtxResult_AlwaysNil(e) == Nil

\* the graceful stop granted to an explicit cancel only
CtxResult_CancelOnly(e) == IF e = "Canceled" THEN Nil ELSE Plain(e)

\* the value returned when ctx.Done() wins the select (lines 73-76)
CtxResult(e) == IF e = "DeadlineExceeded" \/ e = "Canceled" THEN Nil ELSE Plain(e)

\* outcomes of rc.Read on a one-byte buffer with avail bytes left: <<n, err>>;
\* a reader may report end-of-data together with the last byte or on the next call
ProbeOutcomes(avail) ==
    IF avail = 0 THEN { <<0, "EOF">>, <<0, "IOErr">> }
    ELSE IF avail = 1 THEN { <<1, "nil">>, <<1, "EOF">>, <<0, "IOErr">> }
    ELSE { <<1, "nil">>, <<0, "IOErr">> }

\* the test after the end marker: `if _, err := rc.Read(buf); err != io.EOF`
ProbeClean(n, err) == err = "EOF"

\* no length taken for the end marker
IsEndMarker_Never(n) == FALSE

\* `if len == 0` (line 89)
IsEndMarker(n) == n = 0

\* a return that runs no deferred closure
RunDeferred_None(rcs) == rcs

\* the deferred closures of all loop iterations: each closes its own rc if it
\* is not nil, whether or not line 105 closed it before (lines 54-58)
RunDeferred(rcs) == [s \in DOMAIN rcs |-> rcs[s] + 1]

\* a failure that sends the loop back to the poll wait instead of returning
Return_ToWait(err, rcs) ==
    /\ result' = result
    /\ pc' = "wait"
    /\ rcCloses' = rcs

\* a return statement of ConsumeMessages
Return(err, rcs) ==
    /\ result' = err
    /\ pc' = "returned"
    /\ rcCloses' = RunDeferred(rcs)

Avail == Len(Content(seq)) - off

\* a store failure is one of the injected outcomes
StoreFailure(err) == err \in {"OpenErr", "OpenDenied", "IOErr", "CloseErr"}

\* a call that resumes at the sequence number the previous call stopped at
FirstSeq_Resume(s) == s

\* the sequence number a call starts at, whatever an earlier call reached:
\* `for seq := 0; ; seq++` (seq is a local of the call)
FirstSeq(s) == 0

\* ConsumeMessages is called: `for seq := 0; ; seq++`
StartConsumeIf(cond) ==
    /\ cond
    /\ pc = "idle"
    /\ pc' = "open"
    /\ seq' = FirstSeq(seq)
    /\ UNCHANGED <<segs, sinkVars, off, len, buf, rcCloses, delivered, result, lastOpen,
                   ioFailed, hret, ctxErr, prevCall>>

\* ... at any moment
StartConsume == StartConsumeIf(TRUE)
\* ... by a fresh source after the sink was closed
StartAfterClose == StartConsumeIf(sinkPc = "closed")
\* ... by a fresh source after the sink was closed, with a context that is done
StartWhenDone == StartConsumeIf(sinkPc = "closed" /\ ctxErr # "nil")
\* ... before any sink exists at the root
StartBeforeSink == StartConsumeIf(sinkPc = "none")

\* line 62-68: rc, err = mq.streamstore.OpenReadCloser(fullname)
OpenReadCloser ==
    /\ pc = "open"
    /\ \E err \in OpenOutcomes(seq) :
        /\ lastOpen' = err
        /\ ioFailed' = StoreFailure(err)
        /\ IF OpenNext(err) = "returned"
              THEN Return(Plain(err), rcCloses) /\ off' = off
              ELSE /\ pc' = OpenNext(err)
                   /\ result' = result
                   /\ IF err = "nil"
                        THEN rcCloses' = (seq :> 0) @@ rcCloses /\ off' = 0
                        ELSE rcCloses' = rcCloses /\ off' = off
    /\ UNCHANGED <<segs, sinkVars, seq, len, buf, delivered, hret, ctxErr, prevCall>>

\* the select leaving the wait loop without looking at the context
WaitCtxDone_Unguarded ==
    /\ pc = "wait"
    /\ Return(Nil, rcCloses)
    /\ UNCHANGED <<segs, sinkVars, seq, off, len, buf, delivered, lastOpen, ioFailed, hret, ctxErr, prevCall>>

\* lines 70-76: ctx.Done() wins the select
WaitCtxDone ==
    /\ pc = "wait"
    /\ ctxErr # "nil"
    /\ Return(CtxResult(ctxErr), rcCloses)
    /\ UNCHANGED <<segs, sinkVars, seq, off, len, buf, delivered, lastOpen, ioFailed, hret, ctxErr, prevCall>>

\* line 77: the poll timer fires, the wait loop tries the open again
WaitTimer ==
    /\ pc = "wait"
    /\ pc' = "open"
    /\ UNCHANGED <<segs, sinkVars, seq, off, len, buf, rcCloses, delivered, result,
                   lastOpen, ioFailed, hret, ctxErr, prevCall>>

\* lines 82-96 (first half): io.ReadFull of the 4 length bytes, decode
ReadLen ==
    /\ pc = "readLen"
    /\ \E r \in {ReadFull(Avail, LenSize), <<0, "IOErr">>} :
        /\ ioFailed' = StoreFailure(r[2])
        /\ IF r[2] # "nil"
          THEN /\ Return(Errorf("Could not read length", r[2]), rcCloses)
               /\ UNCHANGED <<off, len>>
          ELSE /\ len' = Uint32(SubBytes(Content(seq), off, LenSize))
               /\ off' = off + LenSize
               /\ pc' = IF IsEndMarker(len') THEN "probe" ELSE "readPayload"
               /\ UNCHANGED <<result, rcCloses>>
    /\ UNCHANGED <<segs, sinkVars, seq, buf, delivered, lastOpen, hret, ctxErr, prevCall>>

\* lines 90-95: after an end marker the next read should be EOF
Probe ==
    /\ pc = "probe"
    /\ \E r \in ProbeOutcomes(Avail) :
        /\ off' = off + r[1]
        /\ ioFailed' = StoreFailure(r[2])
        /\ IF ~ProbeClean(r[1], r[2])
             THEN Return(Errorf("Was able to read past end marker", ""), rcCloses)
             ELSE pc' = "close" /\ UNCHANGED <<result, rcCloses>>
    /\ UNCHANGED <<segs, sinkVars, seq, len, buf, delivered, lastOpen, hret, ctxErr, prevCall>>

\* lines 97-101: io.ReadFull of the payload, then the handler is invoked
ReadPayload ==
    /\ pc = "readPayload"
    /\ \E r \in {ReadFull(Avail, len), <<0, "IOErr">>} :
        /\ ioFailed' = StoreFailure(r[2])
        /\ IF r[2] # "nil"
          THEN /\ Return(Errorf("Could not read payload", r[2]), rcCloses)
               /\ UNCHANGED <<off, buf, delivered>>
          ELSE /\ buf' = SubBytes(Content(seq), off, len)
               /\ off' = off + len
               /\ delivered' = Append(delivered, buf')
               /\ pc' = "inHandler"
               /\ UNCHANGED <<result, rcCloses>>
    /\ UNCHANGED <<segs, sinkVars, seq, len, lastOpen, hret, ctxErr, prevCall>>

\* the handler's error dropped: the loop goes on with the next frame
HandlerNext_Ignore(e) == "readLen"

\* what ConsumeMessages does with the handler's return value (lines 101-103)
HandlerNext(e) == IF e # "nil" THEN "returned" ELSE "readLen"

\* lines 101-103: the handler returns
HandlerReturn ==
    /\ pc = "inHandler"
    /\ \E e \in {"nil"} \cup HandlerErrs :
        /\ hret' = e
        /\ IF HandlerNext(e) = "returned"
             THEN Return(Plain(e), rcCloses)
             ELSE pc' = HandlerNext(e) /\ UNCHANGED <<result, rcCloses>>
    /\ UNCHANGED <<segs, sinkVars, seq, off, len, buf, delivered, lastOpen, ioFailed, ctxErr, prevCall>>

\* the sequence number of the next loop iteration: `seq++`
NextSeq(s) == s + 1

\* lines 105-108: rc.Close(), then the next iteration
CloseRc ==
    /\ pc = "close"
    /\ \E e \in {"nil", "CloseErr"} :
        LET closedOnce == [rcCloses EXCEPT ![seq] = @ + 1] IN
        /\ ioFailed' = StoreFailure(e)
        /\ IF e # "nil"
          THEN Return(Plain(e), closedOnce) /\ seq' = seq
          ELSE /\ rcCloses' = closedOnce
               /\ seq' = NextSeq(seq)
               /\ pc' = "open"
               /\ result' = result
    /\ UNCHANGED <<segs, sinkVars, off, len, buf, delivered, lastOpen, hret, ctxErr, prevCall>>

\* ConsumeMessages is called a second time on the same MessageSource after the
\* first call returned, with the same context or a fresh one: all state of a
\* call is local to it (lines 47-52), the MessageSource holds no cursor
ConsumeAgain ==
    /\ pc = "returned"
    /\ prevCall = <<>>
    /\ prevCall' = <<delivered, result>>
    /\ pc' = "open"
    /\ seq' = FirstSeq(seq)
    /\ off' = 0
    /\ len' = 0
    /\ buf' = <<>>
    /\ rcCloses' = <<>>
    /\ delivered' = <<>>
    /\ result' = Running
    /\ lastOpen' = "none"
    /\ ioFailed' = FALSE
    /\ hret' = "none"
    /\ ctxErr' \in {"nil", ctxErr}
    /\ UNCHANGED <<segs, sinkVars>>

\* the context becomes done: cancel() is called, its deadline passes, or a
\* context of another kind ends for a cause of its own
CancelCtxIf(cond) ==
    /\ cond
    /\ ctxErr = "nil"
    /\ ctxErr' \in CtxErrs
    /\ UNCHANGED <<segs, sinkVars, srcVars, prevCall>>

\* ... at any moment
CancelCtx == CancelCtxIf(TRUE)
\* ... before ConsumeMessages is called
CancelBeforeStart == CancelCtxIf(pc = "idle")
\* ... while the handler is executing
CancelInHandler == CancelCtxIf(pc = "inHandler")
\* ... while the source is in the wait loop on a segment that does not exist
\* and no message has been delivered
CancelWhileWaiting ==
    CancelCtxIf(pc \in {"open", "wait"} /\ ~Exists(seq) /\ delivered = <<>>)

(* ------------------------- specifications ----------------------------- *)
NoCfg == [maxMsgs |-> 0, maxTime |-> 0]

InitSource ==
    /\ pc = "idle"
    /\ seq = 0
    /\ off = 0
    /\ len = 0
    /\ buf = <<>>
    /\ rcCloses = <<>>
    /\ delivered = <<>>
    /\ result = Running
    /\ lastOpen = "none"
    /\ ioFailed = FALSE
    /\ hret = "none"
    /\ prevCall = <<>>
    /\ ctxErr = "nil"

\* an empty store, no sink yet, ConsumeMessages not yet called
Init ==
    /\ segs = <<>>
    /\ sinkPc = "none"
    /\ sinkCfg = NoCfg
    /\ sseq = 0
    /\ count = 0
    /\ expired = FALSE
    /\ cur = <<>>
    /\ appended = <<>>
    /\ sinkHist = <<>>
    /\ InitSource

\* the steps of a constructed sink after the first write of PutMessage
SinkRest ==
    \/ PutMessagePayload
    \/ RotateMarker
    \/ RotateOpen
    \/ SinkClose
    \/ Elapse

SinkSteps == PutMessageLen \/ SinkRest

SourceSteps ==
    \/ OpenReadCloser
    \/ WaitCtxDone
    \/ WaitTimer
    \/ ReadLen
    \/ Probe
    \/ ReadPayload
    \/ HandlerReturn
    \/ CloseRc

\* one sink, one source and the owner of the context, interleaved arbitrarily
Next == NewMessageSink \/ SinkSteps \/ StartConsume \/ SourceSteps \/ CancelCtx

Spec == Init /\ [][Next]_vars

\* segment contents of a store that something other than the sink wrote to
RawFiles == UNION { [1..n -> RawBytes] : n \in 0..MaxFileLen }

\* contents of segment 1 in such a store: a clean end marker, an end marker
\* with a trailing byte, one message and an end marker
RawNextFiles == { EndMarker, EndMarker \o <<1>>, <<1, 0, 0, 0, 1>> \o EndMarker }

\* a store found as it is: segment 0 holds any bytes, segment 1 may exist;
\* no sink is running
InitStore ==
    /\ \E f \in RawFiles :
         \/ segs = (seqToPath(0) :> f)
         \/ \E g \in RawNextFiles : segs = (seqToPath(0) :> f) @@ (seqToPath(1) :> g)
    /\ sinkPc = "none"
    /\ sinkCfg = NoCfg
    /\ sseq = 0
    /\ count = 0
    /\ expired = FALSE
    /\ cur = <<>>
    /\ appended = <<>>
    /\ sinkHist = <<>>
    /\ InitSource

StoreNext == StartConsume \/ SourceSteps \/ CancelCtx

SpecStore == InitStore /\ [][StoreNext]_vars

\* a sink writes and is closed; then a fresh source consumes from the same root
RoundTripNext == NewMessageSink \/ SinkSteps \/ StartAfterClose \/ SourceSteps \/ CancelCtx

RoundTripSpec == Init /\ [][RoundTripNext]_vars

\* as RoundTripSpec, the context becoming done while the handler is executing
MidReadNext == NewMessageSink \/ SinkSteps \/ StartAfterClose \/ SourceSteps \/ CancelInHandler

MidReadSpec == Init /\ [][MidReadNext]_vars

\* ConsumeMessages is started on an empty root; the sink is constructed later;
\* the context stays live
\* the steps of ConsumeMessages whose context is never done: the select of the
\* wait loop can only take its timer case
SourceStepsLive ==
    \/ OpenReadCloser
    \/ WaitTimer
    \/ ReadLen
    \/ Probe
    \/ ReadPayload
    \/ HandlerReturn
    \/ CloseRc

TailNext == StartBeforeSink \/ NewMessageSinkLater \/ SinkSteps \/ SourceStepsLive

TailSpec == Init /\ [][TailNext]_vars

\* the scheduler runs the goroutine of ConsumeMessages: every statement it has
\* reached is eventually executed; a select whose ctx.Done() case is ready
\* again and again eventually takes it.  Nothing obliges the sink's caller or
\* the context's owner to act.
SourceFairness ==
    /\ WF_vars(OpenReadCloser)
    /\ WF_vars(WaitTimer)
    /\ SF_vars(WaitCtxDone)
    /\ WF_vars(ReadLen)
    /\ WF_vars(Probe)
    /\ WF_vars(ReadPayload)
    /\ WF_vars(HandlerReturn)
    /\ WF_vars(CloseRc)

\* sink and source interleaved; the context becomes done only while the source
\* waits on an absent segment with nothing delivered
CancelWaitNext ==
    \/ NewMessageSink
    \/ PutMessageLenWait
    \/ SinkRest
    \/ StartConsume
    \/ SourceSteps
    \/ CancelWhileWaiting

CancelWaitSpec == Init /\ [][CancelWaitNext]_vars /\ SourceFairness

\* a sink writes and is closed, the context is done, then a fresh source is
\* started with that context
DrainNext == NewMessageSink \/ SinkSteps \/ CancelBeforeStart \/ StartWhenDone \/ SourceSteps

DrainSpec == Init /\ [][DrainNext]_vars

\* a store found as it is and left unchanged; ConsumeMessages is called, returns,
\* and is called once more on the same MessageSource
TwoCallsNext == StartConsume \/ SourceSteps \/ CancelCtx \/ ConsumeAgain

TwoCallsSpec == InitStore /\ [][TwoCallsNext]_vars

(* ------------------------------ claims -------------------------------- *)
HandlerFailed == \E e \in HandlerErrs : result = Plain(e)

\* the source returned although neither the store nor the handler failed
\* and the context did not end the wait
DecodeFailed ==
    /\ pc = "returned"
    /\ ~ioFailed
    /\ ~HandlerFailed
    /\ lastOpen # "NotExist"

\* C1: round trip.  After PutMessage(P1..Pn) and Close on one sink, a fresh
\* source invokes the handler with exactly P1..Pn, in order and byte-identical,
\* by the time it waits on the first segment that does not exist; short of a
\* store or handler failure it does not stop before that wait.
C1_RoundTrip ==
    /\ pc = "wait" => delivered = appended
    /\ ~DecodeFailed

IsPrefix(a, b) == Len(a) =< Len(b) /\ \A i \in 1..Len(a) : a[i] = b[i]

\* C2: ordering under concurrency.  With sink and source interleaved, the
\* payloads handed to the handler so far are always a prefix of the payloads
\* the sink has appended so far: nothing is delivered twice, skipped,
\* reordered or truncated, within a segment or across segments.
C2_DeliveredPrefix == IsPrefix(delivered, appended)

\* C3: blocking tail.  A source started on a root without a sink keeps
\* polling and does not return while no sink exists; once the sink is
\* constructed and appends a message the source delivers it, so, short of a
\* store or handler failure, it never returns without a delivery.
C3_BlockingTail ==
    /\ (sinkPc = "none" /\ ~ioFailed) => pc \in {"idle", "open", "wait"}
    /\ (pc = "returned" /\ ~ioFailed /\ ~HandlerFailed) => Len(delivered) >= 1

GracefulCtx == ctxErr \in {"Canceled", "DeadlineExceeded"}

\* the source is in the wait loop on a segment that does not exist, the
\* context is cancelled or past its deadline, no message has been delivered
Awaiting ==
    /\ pc \in {"open", "wait"}
    /\ ~Exists(seq)
    /\ GracefulCtx
    /\ delivered = <<>>

CleanStop == pc = "returned" /\ result = Nil /\ delivered = <<>>

\* C4 as stated: once the context was cancelled (or its deadline passed) while
\* the segment at the current sequence number did not exist and no message
\* had arrived, the handler is never invoked and ConsumeMessages returns nil.
C4_CancelWhileWaiting ==
    (GracefulCtx /\ ~ioFailed) => (delivered = <<>> /\ (pc = "returned" => result = Nil))

\* C4 (amended): from such a state ConsumeMessages eventually returns nil
\* without having invoked the handler, unless the segment comes to exist
\* before the source has seen the cancellation, or the store fails.
C4_CancelWhileAbsent == Awaiting ~> (CleanStop \/ Exists(seq) \/ ioFailed)

\* the deadline passed during the wait on segment 0 and the source stopped cleanly
C4_Witness ==
    /\ CleanStop
    /\ ctxErr = "DeadlineExceeded"
    /\ lastOpen = "NotExist"
    /\ ~Exists(seq)

\* C5: mid-read cancellation.  The sink appended and closed; the context is
\* cancelled while the handler is executing; the handler returns nil for that
\* and every later call: ConsumeMessages returns nil (no store failure).
C5_MidReadCancel ==
    (pc = "returned" /\ GracefulCtx /\ ~HandlerFailed /\ ~ioFailed) => result = Nil

\* C6: corrupted end marker.  When the source has decoded a zero-length frame
\* and the segment holds at least one more byte, the probe read makes
\* ConsumeMessages return a non-nil error, without advancing to the next
\* sequence number and without another handler call, however the reader hands
\* over that byte.
C6_CorruptedEndMarker ==
    [][(pc = "probe" /\ Avail >= 1 /\ pc' # "probe")
          => (pc' = "returned" /\ result' # Nil /\ seq' = seq /\ delivered' = delivered)]_vars

\* the bytes of a finalized segment holding the given messages
RECURSIVE FramesOf(_)
FramesOf(msgs) ==
    IF msgs = <<>> THEN <<>>
    ELSE EncodeLen(Head(msgs)) \o Head(msgs) \o FramesOf(Tail(msgs))

FinalizedSegment(msgs) == FramesOf(msgs) \o EndMarker

NonEmptyPuts == \A i \in 1..Len(appended) : appended[i] # <<>>

\* C7: count-based rotation.  With a maximum unflushed message count k > 0
\* and no duration limit, 2k (non-empty) messages and a Close leave exactly
\* the segments 0 and 1 in the store, each holding k messages and an end marker.
C7_CountRotation ==
    ( /\ sinkPc = "closed"
      /\ sinkCfg.maxMsgs > 0
      /\ sinkCfg.maxTime = 0
      /\ NumPuts = 2 * sinkCfg.maxMsgs
      /\ NonEmptyPuts )
    => /\ DOMAIN segs = {seqToPath(0), seqToPath(1)}
       /\ Content(0) = FinalizedSegment(SubSeq(appended, 1, sinkCfg.maxMsgs))
       /\ Content(1) = FinalizedSegment(SubSeq(appended, sinkCfg.maxMsgs + 1, NumPuts))

\* C8: time-based rotation.  With a maximum unflushed duration and no count
\* limit, the Close after "message, duration elapses, message" leaves exactly
\* the segments 0 and 1; and no step that leaves the sink idle (time passing,
\* the source reading) changes the store or the sequence number: rotation is
\* a step of PutMessage only.
C8_TimeRotation ==
    [][ /\ ( /\ sinkPc = "idle" /\ sinkPc' = "closed"
             /\ sinkCfg.maxMsgs = 0 /\ sinkCfg.maxTime > 0
             /\ sinkHist = <<"put", "elapse", "put">> )
           => DOMAIN segs' = {seqToPath(0), seqToPath(1)}
        /\ (sinkPc = "idle" /\ sinkPc' = "idle") => (segs' = segs /\ sseq' = sseq)
      ]_vars

\* closed after "message, duration elapses, message": the rotation took place
C8_Witness ==
    /\ sinkPc = "closed"
    /\ sinkCfg = [maxMsgs |-> 0, maxTime |-> 1]
    /\ sinkHist = <<"put", "elapse", "put">>
    /\ sseq = 1
    /\ Len(appended) = 2

\* C9: handler failure.  When the handler returns an error, ConsumeMessages
\* returns exactly that error, and from then on delivers nothing, reads
\* nothing, opens nothing and closes nothing more.
C9_HandlerFailure ==
    [][ /\ hret' \in HandlerErrs => (pc' = "returned" /\ result' = Plain(hret'))
        /\ hret \in HandlerErrs =>
              UNCHANGED <<pc, result, delivered, off, seq, lastOpen, rcCloses>>
      ]_vars

\* the handler failed on the first of two messages of one segment: ConsumeMessages
\* returned that error with the second frame unread
C9_Witness ==
    /\ hret = "herr2"
    /\ result = Plain("herr2")
    /\ Len(delivered) = 1
    /\ Len(appended) = 2
    /\ Exists(seq)
    /\ Avail > LenSize

\* C10: open-error classification.  The step after an open: a not-found error
\* leads to the poll wait and nothing is returned; any other error is returned
\* as it is, at once; a not-found error is never what ConsumeMessages returns.
C10_OpenErrors ==
    [][ /\ (pc = "open" /\ pc' # "open") =>
              /\ (lastOpen' = "NotExist") <=> (pc' = "wait")
              /\ (lastOpen' \notin {"nil", "NotExist"}) <=> (pc' = "returned")
              /\ pc' = "returned" => result' = Plain(lastOpen')
              /\ pc' # "returned" => result' = Running
        /\ result' # Plain("NotExist")
      ]_vars

\* after segment 0 was drained the open of segment 1 failed for another
\* reason than not-found, and that error was returned
C10_Witness ==
    /\ pc = "returned"
    /\ seq = 1
    /\ lastOpen = "OpenDenied"
    /\ result = Plain("OpenDenied")
    /\ Len(delivered) >= 1

\* the non-nil values ConsumeMessages can return: an open or close error of
\* the store, a decode error, the handler's error, the context's error
IsError(r) ==
    \/ \E e \in {"OpenErr", "OpenDenied", "CloseErr", "OtherCause"} \cup HandlerErrs : r = Plain(e)
    \/ \E e \in {"EOF", "ErrUnexpectedEOF", "IOErr"} :
          r \in {Errorf("Could not read length", e), Errorf("Could not read payload", e)}
    \/ r = Errorf("Was able to read past end marker", "")

\* C11: no terminal success state.  ConsumeMessages has returned nil only if
\* the context is cancelled or past its deadline and the most recent open
\* reported not-found; with a live context every return carries an open,
\* decode, close or handler error, however many segments were drained.
C11_NoTerminalSuccess ==
    /\ (pc = "returned") <=> (result # Running)
    /\ (pc = "returned" /\ result = Nil) => (GracefulCtx /\ lastOpen = "NotExist")
    /\ (pc = "returned" /\ result # Nil) => IsError(result)
    /\ (pc = "returned" /\ ctxErr = "nil") =>
          (ioFailed \/ HandlerFailed \/ (Len(result) = 2 /\ IsError(result)))

\* three segments drained, then a clean stop on the cancel during the wait
\* for the fourth
C11_Witness ==
    /\ pc = "returned"
    /\ result = Nil
    /\ ctxErr = "Canceled"
    /\ seq = 3
    /\ Len(delivered) = 2
    /\ lastOpen = "NotExist"

\* C12: cancellation outcomes.  When ctx.Done() ends the acquisition wait,
\* ConsumeMessages returns nil if ctx.Err() is deadline-exceeded or
\* explicit-cancel, and returns ctx.Err() itself, a non-nil error, for every
\* other cause.
C12_CancelOutcomes ==
    [][ (pc = "wait" /\ pc' = "returned") =>
          /\ ctxErr \in CtxErrs
          /\ GracefulCtx => result' = Nil
          /\ ~GracefulCtx => (result' = Plain(ctxErr) /\ result' # Nil)
      ]_vars

\* the context ended for another cause during the wait for segment 1 and
\* that cause was returned
C12_Witness ==
    /\ pc = "returned"
    /\ ctxErr = "OtherCause"
    /\ result = Plain("OtherCause")
    /\ lastOpen = "NotExist"
    /\ seq = 1

\* C13: handle release.  Whenever ConsumeMessages has returned, on whatever
\* exit path, Close has been invoked on every read handle it opened.
C13_HandleRelease ==
    pc = "returned" => \A s \in DOMAIN rcCloses : rcCloses[s] >= 1

\* a return from the middle of segment 1 (a short payload read) with the
\* handles of segments 0 and 1 both opened and both closed
C13_Witness ==
    /\ pc = "returned"
    /\ result = Errorf("Could not read payload", "EOF")
    /\ seq = 1
    /\ DOMAIN rcCloses = {0, 1}
    /\ rcCloses[1] = 1

\* the number of bytes behind the first zero-length frame of a segment's
\* content c, decoding frames from offset o (0 if there is no such frame)
RECURSIVE BytesAfterMarker(_, _)
BytesAfterMarker(c, o) ==
    IF Len(c) - o < LenSize THEN 0
    ELSE LET n == Uint32(SubBytes(c, o, LenSize)) IN
         IF n = 0 THEN Len(c) - o - LenSize
         ELSE IF Len(c) - o - LenSize < n THEN 0
         ELSE BytesAfterMarker(c, o + LenSize + n)

\* C14: end-marker invariant.  In every state of the store that one sink
\* produces by PutMessage calls with any payloads, rotations and a final
\* Close, a segment that contains a zero-length frame has no bytes behind it.
C14_EndMarkerLast ==
    \A p \in DOMAIN segs : BytesAfterMarker(segs[p], 0) = 0

\* the sequence numbers advance by one, on the close that follows an end
\* marker, and the segments opened are 0, 1, 2, ... in this order
AdvanceInOrder ==
    /\ seq' # seq =>
          /\ pc = "close" /\ pc' = "open"
          /\ seq' = seq + 1
          /\ len = 0
          /\ rcCloses'[seq] = 1
          /\ ~ioFailed'
    /\ pc' = "close" => pc \in {"probe", "close"}
    /\ DOMAIN rcCloses' # DOMAIN rcCloses =>
          /\ pc = "open"
          /\ DOMAIN rcCloses = 0 .. (seq - 1)
          /\ DOMAIN rcCloses' = 0 .. seq

\* C15: segment advance.  The source moves on to segment N+1 only after it
\* has read an end marker in segment N, with end-of-data behind that marker
\* when it probed, and has closed the handle of N without error; the segments
\* it opens are 0, 1, 2, ... with none skipped and none revisited.
C15_SegmentAdvance ==
    [][ /\ AdvanceInOrder
        /\ (pc = "probe" /\ pc' = "close") => Avail = 0
      ]_vars

\* C16: cancellation is observed only in the acquisition wait.  Started with
\* a context that is already cancelled or past its deadline on segments 0..k
\* that a sink wrote and closed, ConsumeMessages reaches the wait only with
\* every message delivered, and (short of a store or handler failure) returns
\* only from the wait on segment k+1, with nil.
C16_DoneCtxDrains ==
    /\ (pc = "wait" /\ GracefulCtx) => (delivered = appended /\ seq = sseq + 1)
    /\ (pc = "returned" /\ GracefulCtx /\ ~ioFailed /\ ~HandlerFailed) =>
          /\ result = Nil
          /\ delivered = appended
          /\ seq = sseq + 1
          /\ lastOpen = "NotExist"

ReadErrs == {"EOF", "ErrUnexpectedEOF", "IOErr"}

C18_NoRetainedCursor ==
    prevCall # <<>> =>
        /\ lastOpen = "none" => (pc = "open" /\ seq = 0)
        /\ rcCloses # <<>> => 0 \in DOMAIN rcCloses
        /\ IsPrefix(delivered, prevCall[1]) \/ IsPrefix(prevCall[1], delivered)
        /\ (pc = "returned" /\ result = Nil /\ prevCall[2] = Nil) => delivered = prevCall[1]

\* both calls drained segments 0 and 1, delivered the same message and
\* stopped cleanly in the wait for segment 2
C18_Witness ==
    /\ prevCall # <<>>
    /\ prevCall[2] = Nil
    /\ Len(prevCall[1]) >= 1
    /\ pc = "returned"
    /\ result = Nil
    /\ seq = 2
    /\ delivered = prevCall[1]

\* C19: single close.  During one call of ConsumeMessages, the deferred
\* cleanup at its return included, Close is invoked at most once on each
\* read handle.
C19_SingleClose ==
    \A s \in DOMAIN rcCloses : rcCloses[s] =< 1

\* C20: non-empty delivery.  The handler is never invoked with an empty
\* payload: a handler call follows the read of a payload whose length is the
\* non-zero little-endian length decoded from the 4 bytes before it, and a
\* decoded length of 0 always leads to the end-marker probe, never to a
\* handler call.
C20_NonEmptyDelivery ==
    [][ /\ (pc' = "inHandler" /\ pc # "inHandler") =>
              /\ pc = "readPayload"
              /\ len # 0
              /\ len = Uint32(SubBytes(Content(seq), off - LenSize, LenSize))
              /\ buf' = SubBytes(Content(seq), off, len)
              /\ Len(buf') = len
              /\ delivered' = Append(delivered, buf')
        /\ (delivered' # delivered /\ delivered' # <<>>) => (pc' = "inHandler" /\ pc # "inHandler")
        /\ (pc = "readLen" /\ pc' \notin {"readLen", "returned"}) =>
              /\ len' = Uint32(SubBytes(Content(seq), off, LenSize))
              /\ len' = 0 <=> pc' = "probe"
              /\ len' # 0 <=> pc' = "readPayload"
        /\ \A i \in 1..Len(delivered') : delivered'[i] # <<>>
      ]_vars

\* in segment 1 a frame of length 1 was delivered, then a length of 0 was
\* decoded and took the end-marker path
C20_Witness ==
    /\ seq = 1
    /\ pc = "probe"
    /\ len = 0
    /\ delivered = << <<1>> >>
    /\ off = 2 * LenSize + 1

====
